---- MODULE Spec2Model ----
(***************************************************************************)
(* PHX Data Canal: the filtering-and-derivation core of the dashboard.     *)
(*                                                                         *)
(* State: the record store (jobs), the filter state held by App            *)
(* (activeCategory, the three inclusion sets, wageFilter, dateFrom,        *)
(* dateTo, searchText), and the browser's time zone (tz), its offsets from  *)
(* UTC in minutes, that JavaScript's Date reads from its environment.      *)
(* Every derived                                                           *)
(* value (filteredJobs, stats, the phrase list, the freshness buckets) is  *)
(* a useMemo of that state and is modelled as an operator over it.         *)
(*                                                                         *)
(* JavaScript strings are TLA+ strings; a character is a string of length  *)
(* one, read with SubSeq(s, i, i).  An optional value (wage: number|null,  *)
(* activeCategory: string|null) is a sequence of length 0 (null) or 1.     *)
(***************************************************************************)
EXTENDS Integers, Sequences, FiniteSets, TLC

VARIABLES jobs, tz, activeCategory, selectedEmployers, selectedLocations,
          selectedStatuses, wageFilter, dateFrom, dateTo, searchText

vars == <<jobs, tz, activeCategory, selectedEmployers, selectedLocations,
          selectedStatuses, wageFilter, dateFrom, dateTo, searchText>>

(***************************************************************************)
(* Strings                                                                 *)
(***************************************************************************)

\* The characters the model's strings are made of, in UTF-16 code-unit order.
CharTable == " (),-/0123456789ABCDEFGHIJKLMNOPQRSTUVWXYZabcdefghijklmnopqrstuvwxyz"

UpperLetters == "ABCDEFGHIJKLMNOPQRSTUVWXYZ"

LowerLetters == "abcdefghijklmnopqrstuvwxyz"

CharAt(s, i) == SubSeq(s, i, i)

Alphabet == { CharAt(CharTable, i) : i \in 1..Len(CharTable) }

\* Position of character c in string t, 0 when absent.
IndexIn(t, c) ==
    IF \E i \in 1..Len(t) : CharAt(t, i) = c
    THEN CHOOSE i \in 1..Len(t) : CharAt(t, i) = c
    ELSE 0

\* Code-unit rank of each character (order only; the values are not code points).
OrdOf == [c \in Alphabet |-> IndexIn(CharTable, c)]

Ord(c) == OrdOf[c]

\* The lower-case and the upper-case form of each character.
LowerOf ==
    [c \in Alphabet |->
        IF IndexIn(UpperLetters, c) = 0 THEN c
        ELSE CharAt(LowerLetters, IndexIn(UpperLetters, c))]

UpperOf ==
    [c \in Alphabet |->
        IF IndexIn(LowerLetters, c) = 0 THEN c
        ELSE CharAt(UpperLetters, IndexIn(LowerLetters, c))]

\* The two halves of a string of two or more characters; the operators that
\* rewrite a string character by character work on the halves in turn.
FirstHalf(s) == SubSeq(s, 1, Len(s) \div 2)

SecondHalf(s) == SubSeq(s, (Len(s) \div 2) + 1, Len(s))

RECURSIVE ToLowerCase(_)
\* String.prototype.toLowerCase on the model's alphabet.
ToLowerCase(s) ==
    IF s = "" THEN ""
    ELSE IF Len(s) = 1 THEN LowerOf[s]
    ELSE ToLowerCase(FirstHalf(s)) \o ToLowerCase(SecondHalf(s))

RECURSIVE ToUpperCase(_)
\* String.prototype.toUpperCase on the model's alphabet.
ToUpperCase(s) ==
    IF s = "" THEN ""
    ELSE IF Len(s) = 1 THEN UpperOf[s]
    ELSE ToUpperCase(FirstHalf(s)) \o ToUpperCase(SecondHalf(s))

\* String.prototype.includes.
Includes(s, q) ==
    \E i \in 1..(Len(s) - Len(q) + 1) \cup {1} :
        /\ i + Len(q) - 1 <= Len(s)
        /\ SubSeq(s, i, i + Len(q) - 1) = q

IsSpace(c) == c = " "

RECURSIVE TrimStart(_)
TrimStart(s) ==
    IF s # "" /\ IsSpace(Head(s)) THEN TrimStart(Tail(s)) ELSE s

RECURSIVE TrimEnd(_)
TrimEnd(s) ==
    IF s # "" /\ IsSpace(CharAt(s, Len(s)))
    THEN TrimEnd(SubSeq(s, 1, Len(s) - 1))
    ELSE s

\* String.prototype.trim.
Trim(s) == TrimEnd(TrimStart(s))

RECURSIVE StrLess(_, _)
\* a < b on JavaScript strings: lexicographic by code unit.
StrLess(a, b) ==
    IF b = "" THEN FALSE
    ELSE IF a = "" THEN TRUE
    ELSE IF Head(a) = Head(b) THEN StrLess(Tail(a), Tail(b))
    ELSE Ord(Head(a)) < Ord(Head(b))

\* a <= b and a >= b on JavaScript strings.
StrLeq(a, b) == a = b \/ StrLess(a, b)

StrGeq(a, b) == StrLeq(b, a)

(***************************************************************************)
(* Dates                                                                   *)
(***************************************************************************)

Digits == "0123456789"

Pad2(n) == CharAt(Digits, ((n \div 10) % 10) + 1) \o CharAt(Digits, (n % 10) + 1)

Pad4(n) == Pad2(n \div 100) \o Pad2(n % 100)

\* Days from 1970-01-01 to the civil date y-m-d (proleptic Gregorian).
DaysFromCivil(y, m, d) ==
    LET yy  == IF m <= 2 THEN y - 1 ELSE y
        era == yy \div 400
        yoe == yy - era * 400
        mp  == IF m > 2 THEN m - 3 ELSE m + 9
        doy == (153 * mp + 2) \div 5 + d - 1
        doe == yoe * 365 + yoe \div 4 - yoe \div 100 + doy
    IN  era * 146097 + doe - 719468

\* The civil date <<y, m, d>> of a day number.
CivilFromDays(z) ==
    LET zz  == z + 719468
        era == zz \div 146097
        doe == zz - era * 146097
        yoe == (doe - doe \div 1460 + doe \div 36524 - doe \div 146096) \div 365
        doy == doe - (365 * yoe + yoe \div 4 - yoe \div 100)
        mp  == (5 * doy + 2) \div 153
        d   == doy - (153 * mp + 2) \div 5 + 1
        m   == IF mp < 10 THEN mp + 3 ELSE mp - 9
        y   == yoe + era * 400 + (IF m <= 2 THEN 1 ELSE 0)
    IN  <<y, m, d>>

MinutesPerDay == 1440

\* Date.prototype.toISOString().slice(0, 10) of an instant given in minutes
\* since the epoch: the UTC calendar day, as YYYY-MM-DD.
ISODate(instant) ==
    LET c == CivilFromDays(instant \div MinutesPerDay)
    IN  Pad4(c[1]) \o "-" \o Pad2(c[2]) \o "-" \o Pad2(c[3])

\* A time zone: the offset from UTC in force from the local day `since` on,
\* and the offset in force before it.
Zone(before, since, offset) == [before |-> before, since |-> since, offset |-> offset]

\* A zone whose offset never changes.
FixedZone(offset) == Zone(offset, 0, offset)

\* The browser's offset from UTC on a local day.
OffsetOn(dayNumber) == IF dayNumber >= tz.since THEN tz.offset ELSE tz.before

\* new Date(y, m, d at 00:00:00 local time): the instant of local midnight.
LocalMidnight(dayNumber) == dayNumber * MinutesPerDay - OffsetOn(dayNumber)

\* Date.prototype.getDate and friends: the local day number of an instant.
LocalDay(instant) ==
    LET utcDay == instant \div MinutesPerDay
    IN  CHOOSE d \in (utcDay - 1)..(utcDay + 1) :
            LocalMidnight(d) <= instant /\ instant < LocalMidnight(d + 1)

(***************************************************************************)
(* The record store                                                        *)
(***************************************************************************)

\* A JobRecord (src/src/types.ts); occupationName, soc and url are carried by
\* no computation of the core and are left out.
Job(id, jobTitle, employer, location, datePosted, status, wage, category) ==
    [id |-> id, jobTitle |-> jobTitle, employer |-> employer,
     location |-> location, datePosted |-> datePosted, status |-> status,
     wage |-> wage, category |-> category]

\* The records the stores of the application specification are cut from.
Catalog ==
    << Job(1, "Senior Data Center Engineer", "Oracle", "Phoenix", "2026-02-01", "Active", <<120000>>, "Dev"),
       Job(2, "Network Admin", "Intel", "Chandler", "2026-01-15", "Active", <<>>, "Net"),
       Job(3, "Data Analyst", "Amazon", "Phoenix", "2026-02-15", "Active", <<90000>>, "Dev"),
       Job(4, "Architect", "Intel", "Phoenix", "2026-02-01", "Active", <<0>>, "Net"),
       Job(5, "Data Engineer", " Oracle", "Chandler", "2025-12-01", "Active", <<150000>>, "Dev"),
       Job(6, "DATA ARCHITECT", "Amazon", "Chandler", "2026-02-27", "Closed", <<49999>>, "Net") >>

\* Largest store of the application specification.
MaxJobs == 4

Stores == { SubSeq(Catalog, 1, n) : n \in 1..MaxJobs }

Range(s) == { s[i] : i \in DOMAIN s }

\* getUniqueValues: the distinct trimmed, non-blank values of a field.  The
\* code returns them as a sorted array, which App reads only through .length
\* and new Set(...); the model keeps the set.
getUniqueValues(data, field) ==
    { Trim(r[field]) : r \in { x \in Range(data) : Trim(x[field]) # "" } }

\* The employer list computed over the records of the active category.
allEmployers_Scoped ==
    getUniqueValues(
        IF activeCategory # <<>> /\ activeCategory[1] # ""
        THEN SelectSeq(jobs, LAMBDA j : j.category = activeCategory[1])
        ELSE jobs,
        "employer")

allEmployers == getUniqueValues(jobs, "employer")

allLocations == getUniqueValues(jobs, "location")

allStatuses == getUniqueValues(jobs, "status")

\* categories: the keys of the category count map of the whole store.
categories == { j.category : j \in Range(jobs) }

(***************************************************************************)
(* Filter pipeline (App.filteredJobs)                                      *)
(***************************************************************************)

\* if (activeCategory): null and the empty string are both falsy.
CategoryApplied == activeCategory # <<>> /\ activeCategory[1] # ""

\* An emptied set read as "nothing chosen, so no restriction".
EmployerApplied_EmptyIsAll ==
    /\ selectedEmployers # {}
    /\ Cardinality(selectedEmployers) < Cardinality(allEmployers)

EmployerApplied == Cardinality(selectedEmployers) < Cardinality(allEmployers)

LocationApplied == Cardinality(selectedLocations) < Cardinality(allLocations)

StatusApplied == Cardinality(selectedStatuses) < Cardinality(allStatuses)

WageApplied == wageFilter # "all"

DateFromApplied == dateFrom # ""

DateToApplied == dateTo # ""

\* The blank test without the trim.
SearchApplied_NoTrim == searchText # ""

SearchApplied == Trim(searchText) # ""

CategoryPred(j) == j.category = activeCategory[1]

EmployerPred(j) == j.employer \in selectedEmployers

LocationPred(j) == j.location \in selectedLocations

StatusPred(j) == j.status \in selectedStatuses

\* The switch with the band edges compared strictly.
WagePred_StrictEdges(tag, wage) ==
    CASE tag = "listed"    -> wage # <<>> /\ wage[1] > 0
      [] tag = "unlisted"  -> wage = <<>> \/ wage[1] = 0
      [] tag = "150k+"     -> wage # <<>> /\ wage[1] > 150000
      [] tag = "100k-150k" -> wage # <<>> /\ wage[1] > 100000 /\ wage[1] < 150000
      [] tag = "50k-100k"  -> wage # <<>> /\ wage[1] > 50000 /\ wage[1] < 100000
      [] tag = "under50k"  -> wage # <<>> /\ wage[1] > 0 /\ wage[1] < 50000
      [] OTHER             -> TRUE

\* The switch over wageFilter; a tag with no case filters nothing.
WagePred(tag, wage) ==
    CASE tag = "listed"    -> wage # <<>> /\ wage[1] > 0
      [] tag = "unlisted"  -> wage = <<>> \/ wage[1] = 0
      [] tag = "150k+"     -> wage # <<>> /\ wage[1] >= 150000
      [] tag = "100k-150k" -> wage # <<>> /\ wage[1] >= 100000 /\ wage[1] < 150000
      [] tag = "50k-100k"  -> wage # <<>> /\ wage[1] >= 50000 /\ wage[1] < 100000
      [] tag = "under50k"  -> wage # <<>> /\ wage[1] > 0 /\ wage[1] < 50000
      [] OTHER             -> TRUE

\* The lower bound compared strictly.
DateFromPred_Exclusive(j) == StrLess(dateFrom, j.datePosted)

DateFromPred(j) == StrGeq(j.datePosted, dateFrom)

DateToPred(j) == StrLeq(j.datePosted, dateTo)

\* The search over the title alone.
SearchPred_TitleOnly(j) == Includes(ToLowerCase(j.jobTitle), ToLowerCase(searchText))

\* q is the lower-cased query, not trimmed.
SearchPred(j) ==
    LET q == ToLowerCase(searchText)
    IN  \/ Includes(ToLowerCase(j.jobTitle), q)
        \/ Includes(ToLowerCase(j.employer), q)
        \/ Includes(ToLowerCase(j.location), q)

\* The k-th predicate of the pipeline, in the order of the code.
StageApplied(k) ==
    CASE k = 1 -> CategoryApplied
      [] k = 2 -> EmployerApplied
      [] k = 3 -> LocationApplied
      [] k = 4 -> StatusApplied
      [] k = 5 -> WageApplied
      [] k = 6 -> DateFromApplied
      [] k = 7 -> DateToApplied
      [] k = 8 -> SearchApplied

StagePred(k, j) ==
    CASE k = 1 -> CategoryPred(j)
      [] k = 2 -> EmployerPred(j)
      [] k = 3 -> LocationPred(j)
      [] k = 4 -> StatusPred(j)
      [] k = 5 -> WagePred(wageFilter, j.wage)
      [] k = 6 -> DateFromPred(j)
      [] k = 7 -> DateToPred(j)
      [] k = 8 -> SearchPred(j)

\* A step that filters the whole store instead of the narrowed data.
Stage_FromStore(k, data) ==
    IF StageApplied(k) THEN SelectSeq(jobs, LAMBDA j : StagePred(k, j)) ELSE data

\* One `if (...) data = data.filter(...)` step.
Stage(k, data) ==
    IF StageApplied(k) THEN SelectSeq(data, LAMBDA j : StagePred(k, j)) ELSE data

RECURSIVE Pipeline(_, _)
\* The stages named by `order`, applied left to right.
Pipeline(order, data) ==
    IF order = <<>> THEN data
    ELSE Pipeline(Tail(order), Stage(Head(order), data))

CodeOrder == <<1, 2, 3, 4, 5, 6, 7, 8>>

filteredJobs == Pipeline(CodeOrder, jobs)

\* The employer term counting a full set as a restriction.
hasActiveFilters_FullCounts ==
    \/ activeCategory # <<>>
    \/ Cardinality(selectedEmployers) <= Cardinality(allEmployers)
    \/ Cardinality(selectedLocations) < Cardinality(allLocations)
    \/ Cardinality(selectedStatuses) < Cardinality(allStatuses)
    \/ wageFilter # "all"
    \/ dateFrom # ""
    \/ dateTo # ""
    \/ Trim(searchText) # ""

\* hasActiveFilters: whether Reset All is offered.
hasActiveFilters ==
    \/ activeCategory # <<>>
    \/ Cardinality(selectedEmployers) < Cardinality(allEmployers)
    \/ Cardinality(selectedLocations) < Cardinality(allLocations)
    \/ Cardinality(selectedStatuses) < Cardinality(allStatuses)
    \/ wageFilter # "all"
    \/ dateFrom # ""
    \/ dateTo # ""
    \/ Trim(searchText) # ""

\* The records the dropdown options are counted over.
OptionBase ==
    IF CategoryApplied
    THEN SelectSeq(jobs, LAMBDA j : j.category = activeCategory[1])
    ELSE jobs

\* The values listed by the employer, location and status dropdowns.
employerOptions == { j.employer : j \in Range(OptionBase) }

locationOptions == { j.location : j \in Range(OptionBase) }

statusOptions == { j.status : j \in Range(OptionBase) }

\* MultiSelectFilter: isAllSelected = selected.size === options.length
isAllSelected(options, selected) == Cardinality(selected) = Cardinality(options)

\* MultiSelectFilter: activeCount = options.length - selected.size, the number
\* on the badge and in "Excluding n values", both shown when it is above 0.
activeCount(options, selected) == Cardinality(options) - Cardinality(selected)

(***************************************************************************)
(* Top job phrases (TopKeywords.keywords)                                  *)
(***************************************************************************)

stopWords ==
    { "the", "and", "for", "with", "from", "that", "this", "will", "are",
      "not", "but", "have", "has", "been", "its", "also", "into", "over",
      "upon", "senior", "principal", "lead", "staff", "junior", "associate",
      "level", "iii", "remote" }

CharsOf(s) == { CharAt(s, i) : i \in 1..Len(s) }

\* [a-zA-Z]
Letters == CharsOf(UpperLetters) \cup CharsOf(LowerLetters)

IsLetter(c) == c \in Letters

\* [-/,()]
Punctuation == CharsOf("-/,()")

RECURSIVE StripTitle(_)
\* .replace(/[-/,()]/g, ' ').replace(/[^a-zA-Z\s]/g, ''): punctuation becomes
\* a space, then everything that is neither a letter nor a space goes.  (The
\* en dash of the first class is outside the model's alphabet.)
StripTitle(s) ==
    IF s = "" THEN ""
    ELSE IF Len(s) = 1
         THEN (IF s \in Punctuation \/ IsSpace(s) THEN " "
               ELSE IF IsLetter(s) THEN s
               ELSE "")
    ELSE StripTitle(FirstHalf(s)) \o StripTitle(SecondHalf(s))

\* .split(/\s+/) without the empty strings it yields at a blank start or end,
\* which the length filter of cleanTitle drops: the maximal runs of
\* characters that are not spaces, left to right.
SplitWords(s) ==
    LET starts == { i \in 1..Len(s) :
                      ~IsSpace(CharAt(s, i)) /\ (i = 1 \/ IsSpace(CharAt(s, i - 1))) }
        ends   == { i \in 1..Len(s) :
                      ~IsSpace(CharAt(s, i)) /\ (i = Len(s) \/ IsSpace(CharAt(s, i + 1))) }
        nth(S, k) == CHOOSE i \in S : Cardinality({ x \in S : x < i }) = k - 1
    IN  [k \in 1..Cardinality(starts) |-> SubSeq(s, nth(starts, k), nth(ends, k))]

\* cleanTitle without the stop-word test.
cleanTitle_KeepStopWords(title) ==
    LET ws    == SplitWords(StripTitle(title))
        lower == [i \in 1..Len(ws) |-> ToLowerCase(ws[i])]
    IN  SelectSeq(lower, LAMBDA w : Len(w) > 1)

\* cleanTitle: the meaningful lower-case words of a title.
cleanTitle(title) ==
    LET ws    == SplitWords(StripTitle(title))
        lower == [i \in 1..Len(ws) |-> ToLowerCase(ws[i])]
    IN  SelectSeq(lower, LAMBDA w : Len(w) > 1 /\ w \notin stopWords)

RECURSIVE Join(_)
\* words.join(' ')
Join(ws) ==
    IF ws = <<>> THEN ""
    ELSE IF Len(ws) = 1 THEN ws[1]
    ELSE ws[1] \o " " \o Join(Tail(ws))

\* The windows of n words, left to right.
Windows(words, n) ==
    [i \in 1..(IF Len(words) >= n THEN Len(words) - n + 1 ELSE 0) |->
        Join(SubSeq(words, i, i + n - 1))]

RECURSIVE Distinct(_, _)
\* s without the repeats of what is in seen or earlier in s.
Distinct(s, seen) ==
    IF s = <<>> THEN <<>>
    ELSE IF Head(s) \in seen THEN Distinct(Tail(s), seen)
    ELSE <<Head(s)>> \o Distinct(Tail(s), seen \cup {Head(s)})

\* The phrases of one title without the `seen` set: a phrase is counted as
\* often as the title repeats it.
titlePhrases_NoSeen(title) ==
    LET words == cleanTitle(title)
    IN  Windows(words, 2) \o Windows(words, 3) \o Windows(words, 4)

\* The phrases one title adds to phraseCounts, in the order the loops over
\* n = 2, 3, 4 and i meet them, each once (the `seen` set).
titlePhrases(title) ==
    LET words == cleanTitle(title)
    IN  Distinct(Windows(words, 2) \o Windows(words, 3) \o Windows(words, 4), {})

\* phraseCounts.set(phrase, (phraseCounts.get(phrase) || 0) + 1) on a Map kept
\* as its entries <<phrase, count>> in insertion order.
Bump(counts, key) ==
    IF \E i \in 1..Len(counts) : counts[i][1] = key
    THEN [i \in 1..Len(counts) |->
            IF counts[i][1] = key THEN <<key, counts[i][2] + 1>> ELSE counts[i]]
    ELSE Append(counts, <<key, 1>>)

RECURSIVE BumpAll(_, _)
\* The inner loops of one title: its phrases counted one after the other.
BumpAll(counts, keys) ==
    \* (Len(counts) is read so that counts is computed before the next step.)
    IF keys = <<>> \/ Len(counts) < 0 THEN counts
    ELSE BumpAll(Bump(counts, Head(keys)), Tail(keys))

RECURSIVE phraseCountsFrom(_, _, _)
\* The loop over the titles from the i-th on.
phraseCountsFrom(data, i, counts) ==
    IF i > Len(data) \/ Len(counts) < 0 THEN counts
    ELSE phraseCountsFrom(data, i + 1, BumpAll(counts, titlePhrases(data[i].jobTitle)))

\* phraseCounts after the loop over the titles.
phraseCounts(data) == phraseCountsFrom(data, 1, <<>>)

\* The entries left in insertion order.
SortByCountDesc_Unsorted(entries) == entries

\* .sort((a, b) => b[1] - a[1]): larger counts first and, the sort being
\* stable, equal counts in the order they had.  The entry at position i goes
\* to the position after the entries that are larger, or equal and earlier.
SortByCountDesc(entries) ==
    LET n == Len(entries)
        place == [i \in 1..n |->
                    1 + Cardinality({ k \in 1..n :
                            \/ entries[k][2] > entries[i][2]
                            \/ entries[k][2] = entries[i][2] /\ k < i })]
    IN  [r \in 1..n |-> entries[CHOOSE i \in 1..n : place[i] = r]]

\* The least number of titles a phrase must appear in.
MinSupport == 2

\* The candidates without the support filter.
candidates_NoSupportFilter(data) == SortByCountDesc(phraseCounts(data))

\* candidates: the phrases of at least two titles, most frequent first.
candidates(data) ==
    SortByCountDesc(SelectSeq(phraseCounts(data), LAMBDA e : e[2] >= MinSupport))

\* The most phrases the widget shows.
MaxKeywords == 15

\* The loop over `covered` with the longer phrase ruled out only when it is
\* strictly more common.
dominated_StrictlyMore(selected, phrase, count) ==
    \E k \in 1..Len(selected) :
        LET existing      == selected[k][1]
            existingCount == selected[k][2]
        IN  \/ Includes(existing, phrase)
            \/ Includes(phrase, existing) /\ count > existingCount

\* The loop over `covered`: whether an already selected phrase rules the
\* candidate out.
dominated(selected, phrase, count) ==
    \E k \in 1..Len(selected) :
        LET existing      == selected[k][1]
            existingCount == selected[k][2]
        IN  \/ Includes(existing, phrase)
            \/ Includes(phrase, existing) /\ count >= existingCount

RECURSIVE selectFrom(_, _, _)
\* The de-duplication loop from the i-th candidate on.
selectFrom(cands, i, selected) ==
    IF i > Len(cands) THEN selected
    ELSE LET next == IF dominated(selected, cands[i][1], cands[i][2])
                     THEN selected
                     ELSE Append(selected, cands[i])
         IN  IF Len(next) >= MaxKeywords THEN next
             ELSE selectFrom(cands, i + 1, next)

\* selected: the phrases kept, before they are title-cased.
selected(data) == selectFrom(candidates(data), 1, <<>>)

RECURSIVE TitleCaseRange(_, _, _)
\* .replace(/\b\w/g, c => c.toUpperCase()) on a phrase of words and spaces,
\* for the characters lo..hi: a character that begins a word is upper-cased.
TitleCaseRange(s, lo, hi) ==
    IF lo > hi THEN ""
    ELSE IF lo = hi
         THEN (IF ~IsSpace(CharAt(s, lo)) /\ (lo = 1 \/ IsSpace(CharAt(s, lo - 1)))
               THEN UpperOf[CharAt(s, lo)]
               ELSE CharAt(s, lo))
    ELSE TitleCaseRange(s, lo, (lo + hi) \div 2)
            \o TitleCaseRange(s, ((lo + hi) \div 2) + 1, hi)

TitleCase(s) == TitleCaseRange(s, 1, Len(s))

\* keywords: the title-cased phrases with their counts.
keywords(data) ==
    LET sel == selected(data)
    IN  [i \in 1..Len(sel) |-> <<TitleCase(sel[i][1]), sel[i][2]>>]

(***************************************************************************)
(* Aggregates (uniqueCount, avgWage, App.stats)                            *)
(***************************************************************************)

\* new Set(arr.map(r => r[key])).size
uniqueCount(arr, key) == Cardinality({ arr[i][key] : i \in 1..Len(arr) })

\* r.wage != null && r.wage > 0
HasWage(r) == r.wage # <<>> /\ r.wage[1] > 0

RECURSIVE SumWages(_)
\* withWage.reduce((s, r) => s + r.wage!, 0)
SumWages(arr) == IF arr = <<>> THEN 0 ELSE Head(arr).wage[1] + SumWages(Tail(arr))

\* Math.round(a / b) for a >= 0 and b > 0: the nearest integer, a half going up.
RoundDiv(a, b) == (2 * a + b) \div (2 * b)

\* avgWage with every record in the denominator.
avgWage_AllRecords(arr) ==
    LET withWage == SelectSeq(arr, HasWage)
    IN  IF Len(withWage) = 0 THEN 0
        ELSE RoundDiv(SumWages(withWage), Len(arr))

avgWage(arr) ==
    LET withWage == SelectSeq(arr, HasWage)
    IN  IF Len(withWage) = 0 THEN 0
        ELSE RoundDiv(SumWages(withWage), Len(withWage))

\* stats computed over the whole store.
stats_OverStore ==
    [ total     |-> Len(jobs),
      employers |-> uniqueCount(jobs, "employer"),
      avgWage   |-> avgWage(jobs),
      withWage  |-> Len(SelectSeq(jobs, HasWage)) ]

\* App.stats
stats ==
    [ total     |-> Len(filteredJobs),
      employers |-> uniqueCount(filteredJobs, "employer"),
      avgWage   |-> avgWage(filteredJobs),
      withWage  |-> Len(SelectSeq(filteredJobs, HasWage)) ]

\* for (const j of data) counts.set(j[field], (counts.get(j[field]) || 0) + 1):
\* the entries <<value, count>> of the Map, in insertion order.
countsBy(data, field) == BumpAll(<<>>, [i \in 1..Len(data) |-> data[i][field]])

\* Array.from(counts.entries()).sort((a, b) => b[1] - a[1])
rankBy(data, field) == SortByCountDesc(countsBy(data, field))

\* The most employers the chart shows: .slice(0, 8).
MaxTopEmployers == 8

\* .slice(0, n)
Slice(s, n) == SubSeq(s, 1, IF Len(s) < n THEN Len(s) ELSE n)

\* topEmployers with the Map left in insertion order.
topEmployers_Unsorted(data) == Slice(countsBy(data, "employer"), MaxTopEmployers)

\* TopEmployersChart.topEmployers
topEmployers(data) == Slice(rankBy(data, "employer"), MaxTopEmployers)

\* App.categories with its counts: the ranking of the whole store by category.
categoryCounts == rankBy(jobs, "category")

(***************************************************************************)
(* Posting freshness (PostingFreshness.buckets)                            *)
(***************************************************************************)

\* today = new Date('2026-02-27T00:00:00'): local midnight of that day.
today == LocalMidnight(DaysFromCivil(2026, 2, 27))

\* maxDays of the last range is Infinity, written <<>>.
ranges ==
    << [label |-> "Last 5 days", maxDays |-> <<5>>],
       [label |-> "6-10 days",   maxDays |-> <<10>>],
       [label |-> "11-30 days",  maxDays |-> <<30>>],
       [label |-> "31-60 days",  maxDays |-> <<60>>],
       [label |-> "60+ days",    maxDays |-> <<>>] >>

\* cutoff.setDate(cutoff.getDate() - maxDays); cutoff.toISOString().slice(0, 10):
\* local calendar subtraction, then the UTC day of that local midnight.
cutoffStr(maxDays) == ISODate(LocalMidnight(LocalDay(today) - maxDays))

\* new Date(today.getTime() - prevMax * 86400000).toISOString().slice(0, 10).
prevStr(prevMax) == ISODate(today - prevMax * MinutesPerDay)

\* ranges[ranges.indexOf(r) - 1]?.maxDays ?? 0
prevMaxOf(k) == IF k = 1 THEN 0 ELSE ranges[k - 1].maxDays[1]

\* The records of `remaining` the k-th range takes.
\* The first band bounded above by the reference date as well.
matching_Bounded(k, remaining) ==
    IF ranges[k].maxDays = <<>> THEN remaining
    ELSE SelectSeq(remaining, LAMBDA j :
            IF prevMaxOf(k) = 0
            THEN /\ StrGeq(j.datePosted, cutoffStr(ranges[k].maxDays[1]))
                 /\ StrLeq(j.datePosted, cutoffStr(0))
            ELSE /\ StrGeq(j.datePosted, cutoffStr(ranges[k].maxDays[1]))
                 /\ StrLess(j.datePosted, prevStr(prevMaxOf(k))))

matching(k, remaining) ==
    IF ranges[k].maxDays = <<>> THEN remaining
    ELSE SelectSeq(remaining, LAMBDA j :
            IF prevMaxOf(k) = 0
            THEN StrGeq(j.datePosted, cutoffStr(ranges[k].maxDays[1]))
            ELSE /\ StrGeq(j.datePosted, cutoffStr(ranges[k].maxDays[1]))
                 /\ StrLess(j.datePosted, prevStr(prevMaxOf(k))))

RECURSIVE bucketsFrom_KeepRemaining(_, _)
\* ranges.map without the update of `remaining`.
bucketsFrom_KeepRemaining(k, remaining) ==
    IF k > Len(ranges) THEN <<>>
    ELSE <<matching(k, remaining)>> \o bucketsFrom_KeepRemaining(k + 1, remaining)

RECURSIVE bucketsFrom(_, _)
\* ranges.map over the ranges from the k-th on, `remaining` being what the
\* earlier ranges left: the records each range takes, in range order.
bucketsFrom(k, remaining) ==
    IF k > Len(ranges) THEN <<>>
    ELSE LET m == matching(k, remaining)
         IN  <<m>> \o bucketsFrom(k + 1, SelectSeq(remaining, LAMBDA j : j \notin Range(m)))

\* The records counted in each band, band by band.
bucketMembers(data) == bucketsFrom(1, data)

\* buckets: the count of each band.
buckets(data) == [k \in 1..Len(ranges) |-> Len(bucketMembers(data)[k])]

(***************************************************************************)
(* Handlers                                                                *)
(***************************************************************************)

\* The toggle on a fresh Set instead of a copy of the previous one.
Toggled_FromEmpty(prev, val) == {val}

\* A Set toggled on one value: a new set, the previous one left as it was.
Toggled(prev, val) == IF val \in prev THEN prev \ {val} ELSE prev \cup {val}

\* A category click that also selects every value again.
handleCategoryClick_ResetsSets(cat) ==
    /\ activeCategory' = cat
    /\ selectedEmployers' = allEmployers
    /\ selectedLocations' = allLocations
    /\ selectedStatuses' = allStatuses
    /\ UNCHANGED <<jobs, tz, wageFilter, dateFrom, dateTo, searchText>>

\* handleCategoryClick; the grid's own column filter model it also clears
\* belongs to the grid widget, not to this state.
handleCategoryClick(cat) ==
    /\ activeCategory' = cat
    /\ UNCHANGED <<jobs, tz, selectedEmployers, selectedLocations, selectedStatuses,
                   wageFilter, dateFrom, dateTo, searchText>>

toggleEmployer(val) ==
    /\ selectedEmployers' = Toggled(selectedEmployers, val)
    /\ UNCHANGED <<jobs, tz, activeCategory, selectedLocations, selectedStatuses,
                   wageFilter, dateFrom, dateTo, searchText>>

toggleLocation(val) ==
    /\ selectedLocations' = Toggled(selectedLocations, val)
    /\ UNCHANGED <<jobs, tz, activeCategory, selectedEmployers, selectedStatuses,
                   wageFilter, dateFrom, dateTo, searchText>>

toggleStatus(val) ==
    /\ selectedStatuses' = Toggled(selectedStatuses, val)
    /\ UNCHANGED <<jobs, tz, activeCategory, selectedEmployers, selectedLocations,
                   wageFilter, dateFrom, dateTo, searchText>>

selectAllEmployers ==
    /\ selectedEmployers' = allEmployers
    /\ UNCHANGED <<jobs, tz, activeCategory, selectedLocations, selectedStatuses,
                   wageFilter, dateFrom, dateTo, searchText>>

selectAllLocations ==
    /\ selectedLocations' = allLocations
    /\ UNCHANGED <<jobs, tz, activeCategory, selectedEmployers, selectedStatuses,
                   wageFilter, dateFrom, dateTo, searchText>>

selectAllStatuses ==
    /\ selectedStatuses' = allStatuses
    /\ UNCHANGED <<jobs, tz, activeCategory, selectedEmployers, selectedLocations,
                   wageFilter, dateFrom, dateTo, searchText>>

\* Clear that empties the store with the set.
clearAllEmployers_EmptiesStore ==
    /\ selectedEmployers' = {}
    /\ jobs' = SelectSeq(jobs, LAMBDA j : j.employer \in {})
    /\ UNCHANGED <<tz, activeCategory, selectedLocations, selectedStatuses,
                   wageFilter, dateFrom, dateTo, searchText>>

clearAllEmployers ==
    /\ selectedEmployers' = {}
    /\ UNCHANGED <<jobs, tz, activeCategory, selectedLocations, selectedStatuses,
                   wageFilter, dateFrom, dateTo, searchText>>

clearAllLocations ==
    /\ selectedLocations' = {}
    /\ UNCHANGED <<jobs, tz, activeCategory, selectedEmployers, selectedStatuses,
                   wageFilter, dateFrom, dateTo, searchText>>

clearAllStatuses ==
    /\ selectedStatuses' = {}
    /\ UNCHANGED <<jobs, tz, activeCategory, selectedEmployers, selectedLocations,
                   wageFilter, dateFrom, dateTo, searchText>>

setWageFilter(tag) ==
    /\ wageFilter' = tag
    /\ UNCHANGED <<jobs, tz, activeCategory, selectedEmployers, selectedLocations,
                   selectedStatuses, dateFrom, dateTo, searchText>>

setDateFrom(d) ==
    /\ dateFrom' = d
    /\ UNCHANGED <<jobs, tz, activeCategory, selectedEmployers, selectedLocations,
                   selectedStatuses, wageFilter, dateTo, searchText>>

setDateTo(d) ==
    /\ dateTo' = d
    /\ UNCHANGED <<jobs, tz, activeCategory, selectedEmployers, selectedLocations,
                   selectedStatuses, wageFilter, dateFrom, searchText>>

setSearchText(q) ==
    /\ searchText' = q
    /\ UNCHANGED <<jobs, tz, activeCategory, selectedEmployers, selectedLocations,
                   selectedStatuses, wageFilter, dateFrom, dateTo>>

\* handleResetAll without setSearchText('').
handleResetAll_KeepsSearch ==
    /\ hasActiveFilters
    /\ activeCategory' = <<>>
    /\ selectedEmployers' = allEmployers
    /\ selectedLocations' = allLocations
    /\ selectedStatuses' = allStatuses
    /\ wageFilter' = "all"
    /\ dateFrom' = ""
    /\ dateTo' = ""
    /\ UNCHANGED <<jobs, tz, searchText>>

\* handleResetAll, offered only while hasActiveFilters.
handleResetAll ==
    /\ hasActiveFilters
    /\ activeCategory' = <<>>
    /\ selectedEmployers' = allEmployers
    /\ selectedLocations' = allLocations
    /\ selectedStatuses' = allStatuses
    /\ wageFilter' = "all"
    /\ dateFrom' = ""
    /\ dateTo' = ""
    /\ searchText' = ""
    /\ UNCHANGED <<jobs, tz>>

(***************************************************************************)
(* The application: a store, and the user working the filter toolbar       *)
(***************************************************************************)

\* The state App is constructed in over the store `store`.
InitOver(store) ==
    /\ jobs = store
    /\ activeCategory = <<>>
    /\ selectedEmployers = getUniqueValues(store, "employer")
    /\ selectedLocations = getUniqueValues(store, "location")
    /\ selectedStatuses = getUniqueValues(store, "status")
    /\ wageFilter = "all"
    /\ dateFrom = ""
    /\ dateTo = ""
    /\ searchText = ""

\* Minutes east of UTC of America/Phoenix, where the board is used.
PhoenixOffset == -7 * 60

Init == \E store \in Stores : InitOver(store) /\ tz = FixedZone(PhoenixOffset)

\* What the user enters in the application specification.
WageTags == {"all", "listed", "unlisted", "150k+", "100k-150k", "50k-100k", "under50k"}

AppWageInputs == {"all", "listed", "100k-150k"}

AppDateInputs == {"", "2026-02-01"}

AppSearchInputs == {"", " ", "data"}

CategoryClick ==
    \E cat \in {<<>>} \cup { <<c>> : c \in categories } : handleCategoryClick(cat)

ToggleEmployerClick == \E val \in employerOptions : toggleEmployer(val)

ToggleLocationClick == \E val \in locationOptions : toggleLocation(val)

ToggleStatusClick == \E val \in statusOptions : toggleStatus(val)

Next ==
    \/ CategoryClick
    \/ ToggleEmployerClick
    \/ ToggleLocationClick
    \/ ToggleStatusClick
    \/ selectAllEmployers
    \/ selectAllLocations
    \/ selectAllStatuses
    \/ clearAllEmployers
    \/ clearAllLocations
    \/ clearAllStatuses
    \/ \E tag \in AppWageInputs : setWageFilter(tag)
    \/ \E d \in AppDateInputs : setDateFrom(d)
    \/ \E d \in AppDateInputs : setDateTo(d)
    \/ \E q \in AppSearchInputs : setSearchText(q)
    \/ handleResetAll

Spec == Init /\ [][Next]_vars

(***************************************************************************)
(* Properties of the filter pipeline                                       *)
(***************************************************************************)

Ids(data) == { j.id : j \in Range(data) }

\* Every dimension of the filter state is "no restriction".
NoRestriction ==
    /\ activeCategory = <<>>
    /\ selectedEmployers = allEmployers
    /\ selectedLocations = allLocations
    /\ selectedStatuses = allStatuses
    /\ wageFilter = "all"
    /\ dateFrom = ""
    /\ dateTo = ""
    /\ Trim(searchText) = ""

\* C1: when every filter dimension is "no restriction" (no category, the three
\* inclusion sets full, wage tag "all", no date bound, blank search text), the
\* filtered subset holds exactly the ids of the record store.
C1_NoRestrictionKeepsAll == NoRestriction => Ids(filteredJobs) = Ids(jobs)

\* C1 witness: a store of several records, unrestricted, with a search text
\* that is blank but not empty.
C1_Witness == NoRestriction /\ searchText = " " /\ Len(jobs) >= 4

\* A record satisfies every predicate the filter state makes active.
SatisfiesAll(j) == \A k \in 1..8 : StageApplied(k) => StagePred(k, j)

Reverse(s) == [i \in 1..Len(s) |-> s[Len(s) + 1 - i]]

Rotate(s, n) == [i \in 1..Len(s) |-> s[((i + n - 1) % Len(s)) + 1]]

\* Orders the eight predicates are tried in besides the code's: its reverse,
\* and rotations of both.
Orders ==
    { Rotate(CodeOrder, n) : n \in {3, 5} } \cup { Rotate(Reverse(CodeOrder), n) : n \in {0, 2, 6} }

\* C2: a record is in the filtered subset iff it satisfies every active
\* predicate; the kept records keep their relative order; applying the
\* predicates in another order gives the same result; and with an employer
\* inclusion set smaller than the full set no record of another employer is
\* in the result.
C2_ConjunctionOfPredicates ==
    /\ filteredJobs = SelectSeq(jobs, LAMBDA j : SatisfiesAll(j))
    /\ \A order \in Orders : Pipeline(order, jobs) = filteredJobs
    /\ Cardinality(selectedEmployers) < Cardinality(allEmployers)
          => \A j \in Range(filteredJobs) : j.employer \in selectedEmployers

\* C2 witness: three predicates active at once, keeping some records and
\* dropping others.
C2_Witness ==
    /\ Cardinality(selectedEmployers) < Cardinality(allEmployers)
    /\ wageFilter # "all"
    /\ dateFrom # ""
    /\ filteredJobs # <<>>
    /\ Len(filteredJobs) < Len(jobs)

\* hasActiveFilters with the term of one inclusion set left out.
ActiveBesides(applied) ==
    \/ activeCategory # <<>>
    \/ (EmployerApplied /\ applied # "employer")
    \/ (LocationApplied /\ applied # "location")
    \/ (StatusApplied /\ applied # "status")
    \/ wageFilter # "all"
    \/ dateFrom # ""
    \/ dateTo # ""
    \/ Trim(searchText) # ""

Without(k) == SelectSeq(CodeOrder, LAMBDA i : i # k)

\* C4: an emptied inclusion set over a field that has a value empties the
\* filtered subset, while the full set removes no record.
C4_EmptiedSetExcludesAll ==
    /\ (selectedEmployers = {} /\ allEmployers # {}) => filteredJobs = <<>>
    /\ (selectedLocations = {} /\ allLocations # {}) => filteredJobs = <<>>
    /\ (selectedStatuses = {} /\ allStatuses # {}) => filteredJobs = <<>>
    /\ selectedEmployers = allEmployers => filteredJobs = Pipeline(Without(2), jobs)
    /\ selectedLocations = allLocations => filteredJobs = Pipeline(Without(3), jobs)
    /\ selectedStatuses = allStatuses => filteredJobs = Pipeline(Without(4), jobs)

\* C4 witness: the employer set emptied, every other dimension unrestricted.
C4_Witness ==
    /\ selectedEmployers = {}
    /\ Len(jobs) >= 3
    /\ ~ActiveBesides("employer")
    /\ filteredJobs = <<>>

(***************************************************************************)
(* The wage selector alone: stores that differ in wages only               *)
(***************************************************************************)

SeqsUpTo(S, n) == UNION { [1..k -> S] : k \in 1..n }

\* Wages at and next to every band edge, and the two unlisted forms.
WageSamples ==
    { <<>>, <<0>>, <<1>>, <<49999>>, <<50000>>, <<99999>>, <<100000>>,
      <<149999>>, <<150000>>, <<150001>> }

\* Longest store of the wage specification.
MaxWageJobs == 2

\* The wages of the worked example of the wage band "100k-150k".
WageExample == << <<90000>>, <<120000>>, <<150000>>, <<>> >>

WageStore(ws) ==
    [i \in 1..Len(ws) |->
        Job(i, "Data Analyst", "Oracle", "Phoenix", "2026-02-01", "Active", ws[i], "Dev")]

InitWage ==
    /\ \E ws \in SeqsUpTo(WageSamples, MaxWageJobs) \cup {WageExample} :
          InitOver(WageStore(ws))
    /\ tz = FixedZone(PhoenixOffset)

NextWage == \E tag \in WageTags : setWageFilter(tag)

SpecWage == InitWage /\ [][NextWage]_vars

Kept(j) == j \in Range(filteredJobs)

WageBands == {"150k+", "100k-150k", "50k-100k", "under50k"}

\* C5: on wages that are null or non-negative integers, "listed" selects
\* exactly wage > 0, "unlisted" exactly null or 0, "150k+" exactly
\* wage >= 150000, "100k-150k" exactly 100000 <= wage < 150000, "50k-100k"
\* exactly 50000 <= wage < 100000, "under50k" exactly 0 < wage < 50000; every
\* listed wage is in exactly one of the four numeric bands, and every wage is
\* in exactly one of listed and unlisted.
C5_WageBands ==
    \A i \in DOMAIN jobs :
        LET j == jobs[i]
            absent == j.wage = <<>>
            w == IF absent THEN 0 ELSE j.wage[1]
        IN  /\ wageFilter = "all" => Kept(j)
            /\ wageFilter = "listed" => (Kept(j) <=> ~absent /\ w > 0)
            /\ wageFilter = "unlisted" => (Kept(j) <=> absent \/ w = 0)
            /\ wageFilter = "150k+" => (Kept(j) <=> ~absent /\ w >= 150000)
            /\ wageFilter = "100k-150k" => (Kept(j) <=> ~absent /\ 100000 <= w /\ w < 150000)
            /\ wageFilter = "50k-100k" => (Kept(j) <=> ~absent /\ 50000 <= w /\ w < 100000)
            /\ wageFilter = "under50k" => (Kept(j) <=> ~absent /\ 0 < w /\ w < 50000)
            /\ (~absent /\ w > 0)
                  => Cardinality({ t \in WageBands : WagePred(t, j.wage) }) = 1
            /\ WagePred("listed", j.wage) # WagePred("unlisted", j.wage)

\* C5 witness: the band "100k-150k" over the wages 90000, 120000, 150000 and
\* null keeps the record of wage 120000 and no other.
C5_Witness ==
    /\ [i \in DOMAIN jobs |-> jobs[i].wage] = WageExample
    /\ wageFilter = "100k-150k"
    /\ Ids(filteredJobs) = {2}

(***************************************************************************)
(* The date bounds alone: stores that differ in posting dates only         *)
(***************************************************************************)

DateSamples == {"2025-12-31", "2026-01-15", "2026-02-01", "2026-02-15"}

DateInputs == {"", "2026-01-15", "2026-02-01", "2026-02-15"}

\* Longest store of the date specification.
MaxDateJobs == 2

\* The posting dates of the worked example of the lower bound.
DateExample == <<"2026-01-15", "2026-02-01", "2026-02-15">>

DateStore(ds) ==
    [i \in 1..Len(ds) |->
        Job(i, "Data Analyst", "Oracle", "Phoenix", ds[i], "Active", <<>>, "Dev")]

InitDates ==
    /\ \E ds \in SeqsUpTo(DateSamples, MaxDateJobs) \cup {DateExample} :
          InitOver(DateStore(ds))
    /\ tz = FixedZone(PhoenixOffset)

NextDates ==
    \/ \E d \in DateInputs : setDateFrom(d)
    \/ \E d \in DateInputs : setDateTo(d)

SpecDates == InitDates /\ [][NextDates]_vars

DigitValue(c) == IndexIn(Digits, c) - 1

\* The number written by a string of digits.
NumberOf(s) ==
    LET val[i \in 0..Len(s)] ==
            IF i = 0 THEN 0 ELSE 10 * val[i - 1] + DigitValue(CharAt(s, i))
    IN  val[Len(s)]

\* s has the shape YYYY-MM-DD and names a day of the calendar.
IsCalendarDate(s) ==
    /\ Len(s) = 10
    /\ \A i \in 1..10 :
          IF i \in {5, 8} THEN CharAt(s, i) = "-" ELSE IndexIn(Digits, CharAt(s, i)) # 0
    /\ LET y == NumberOf(SubSeq(s, 1, 4))
           m == NumberOf(SubSeq(s, 6, 7))
           d == NumberOf(SubSeq(s, 9, 10))
       IN  m \in 1..12 /\ d >= 1 /\ CivilFromDays(DaysFromCivil(y, m, d)) = <<y, m, d>>

\* The day number of a calendar date.
DayOf(s) ==
    DaysFromCivil(NumberOf(SubSeq(s, 1, 4)), NumberOf(SubSeq(s, 6, 7)),
                  NumberOf(SubSeq(s, 9, 10)))

\* C6: with calendar dates, a record is kept iff its posting day is not before
\* dateFrom (when dateFrom is set) and not after dateTo (when dateTo is set);
\* an empty bound constrains nothing on its side, and a record dated exactly
\* dateFrom or exactly dateTo is kept.
C6_InclusiveDateBounds ==
    \A i \in DOMAIN jobs :
        LET j == jobs[i]
        IN  /\ Kept(j) <=>
                  /\ dateFrom = "" \/ DayOf(j.datePosted) >= DayOf(dateFrom)
                  /\ dateTo = "" \/ DayOf(j.datePosted) <= DayOf(dateTo)
            /\ j.datePosted \in {dateFrom, dateTo}
                  /\ (dateFrom = "" \/ dateTo = "" \/ DayOf(dateFrom) <= DayOf(dateTo))
                  => Kept(j)

\* C6 witness: dateFrom 2026-02-01 over postings dated 2026-01-15, 2026-02-01
\* and 2026-02-15 keeps the latter two.
C6_Witness ==
    /\ [i \in DOMAIN jobs |-> jobs[i].datePosted] = DateExample
    /\ dateFrom = "2026-02-01"
    /\ dateTo = ""
    /\ Ids(filteredJobs) = {2, 3}

(***************************************************************************)
(* Posting freshness: stores that differ in posting dates, read in         *)
(* browsers of several time zones                                          *)
(***************************************************************************)

\* The date `age` days before the reference date 2026-02-27.
DateOfAge(age) ==
    LET c == CivilFromDays(DaysFromCivil(2026, 2, 27) - age)
    IN  Pad4(c[1]) \o "-" \o Pad2(c[2]) \o "-" \o Pad2(c[3])

FreshAges == {-1, 0, 5, 6, 10, 11, 30, 31, 60, 61}

MalformedDates == {"", "n/a", "2026-02-30"}

FreshDates == { DateOfAge(a) : a \in FreshAges } \cup MalformedDates

\* Africa/Casablanca in 2026: UTC+1, and UTC from 15 February, the Sunday
\* before Ramadan, until 22 March.
Casablanca == Zone(60, DaysFromCivil(2026, 2, 15), 0)

\* Phoenix, UTC, Tokyo and Casablanca.
TimeZones == { FixedZone(-7 * 60), FixedZone(0), FixedZone(9 * 60), Casablanca }

\* Longest store of the freshness specification.
MaxFreshJobs == 2

InitFresh ==
    /\ \E ds \in SeqsUpTo(FreshDates, MaxFreshJobs) : InitOver(DateStore(ds))
    /\ tz \in TimeZones

NextFresh == \E d \in {"", "2026-02-01"} : setDateFrom(d)

SpecFresh == InitFresh /\ [][NextFresh]_vars

\* C7 (the freshness part of the claim): a record whose datePosted is not a
\* calendar date is counted in no freshness band.
C7_MalformedDateInNoBand ==
    \A j \in Range(filteredJobs) :
        ~IsCalendarDate(j.datePosted)
            => \A k \in 1..Len(ranges) : j \notin Range(bucketMembers(filteredJobs)[k])

(***************************************************************************)
(* The phrase widget: stores that differ in titles only                    *)
(***************************************************************************)

TitlePool ==
    { "Senior Data Center Engineer", "Data Center Technician",
      "Network Engineer", "Call-Center Engineer (Remote)" }

\* Longest store of the phrase specification.
MaxTitleJobs == 4

\* Two titles of nine words each; no two-word window of either contains
\* another, so that together they yield sixteen phrases that do not overlap.
LongTitles ==
    << "Cloud Platform Software Development Manager, Database Network Security Systems",
       "Analytics Infrastructure Operations Support, Quality Testing Automation Delivery Program" >>

TitleStore(ts) ==
    [i \in 1..Len(ts) |->
        Job(i, ts[i], "Oracle", "Phoenix", "2026-02-01", "Active", <<>>, "Dev")]

\* A title that repeats a phrase, beside a title that has the phrase once.
RepeatTitles == << "Data Center Data Center Lead", "Data Center Technician" >>

\* Titles in which a phrase of four words is rarer than every shorter phrase
\* kept before it.
NestedTitles ==
    << "Data Center Network Engineer", "Data Center Network Engineer",
       "Data Center Network Lead I", "Center Network Engineer" >>

\* Stores of titles beyond the pool.
PhraseFixtures ==
    { <<LongTitles[1], LongTitles[1], LongTitles[2], LongTitles[2]>>,
      RepeatTitles, NestedTitles }

InitPhrase ==
    /\ \E ts \in SeqsUpTo(TitlePool, MaxTitleJobs) \cup PhraseFixtures :
          InitOver(TitleStore(ts))
    /\ tz = FixedZone(PhoenixOffset)

NextPhrase == \E q \in {"", "center"} : setSearchText(q)

SpecPhrase == InitPhrase /\ [][NextPhrase]_vars

\* C8: no phrase shown is a substring of another phrase shown.
C8_NoPhraseContainsAnother ==
    LET kw == keywords(filteredJobs)
    IN  \A a, b \in 1..Len(kw) : a # b => ~Includes(kw[a][1], kw[b][1])

\* C9: a candidate that contains an already kept phrase and whose support is
\* at most that phrase's support, smaller or equal, is not kept.
C9_LongerNotMoreCommonDropped ==
    LET sel == selected(filteredJobs)
    IN  \A a, b \in 1..Len(sel) :
            (a < b /\ Includes(sel[b][1], sel[a][1]) /\ sel[b][2] <= sel[a][2])
                => FALSE

\* The number of titles of `data` among whose phrases `phrase` is.
Support(phrase, data) ==
    Cardinality({ i \in 1..Len(data) : phrase \in Range(titlePhrases(data[i].jobTitle)) })

\* C10: at most 15 phrases are shown, each with a count, and a real support,
\* of at least 2; fewer than 2 records give no phrase.
C10_AtMostFifteenSupportTwo ==
    LET sel == selected(filteredJobs)
        kw  == keywords(filteredJobs)
    IN  /\ Len(kw) <= 15
        /\ Len(kw) = Len(sel)
        /\ \A i \in 1..Len(kw) :
              kw[i][2] >= 2 /\ Support(sel[i][1], filteredJobs) >= 2
        /\ Len(filteredJobs) < 2 => kw = <<>>

\* C10 witness: more than 15 candidates of support 2, of which 15 are shown.
C10_Witness ==
    /\ Len(candidates(filteredJobs)) > 15
    /\ Len(keywords(filteredJobs)) = 15

\* Whether the words w are a contiguous window of `words`.
HasWindow(words, w) ==
    \E i \in 1..(Len(words) - Len(w) + 1) : SubSeq(words, i, i + Len(w) - 1) = w

\* The titles of `data`, in order.
TitlesOf(data) == [i \in 1..Len(data) |-> data[i].jobTitle]

\* C11: the count shown with a phrase is the number of records of the subset
\* whose cleaned title has the phrase's words as a contiguous window, a title
\* that repeats the phrase counting once; the titles 'Senior Data Center
\* Engineer', 'Data Center Technician', 'Network Engineer' give exactly
\* [('Data Center', 2)].
C11_SupportIsTitleCount ==
    \* (Bound variables, so that each is computed once.)
    \A sel \in { selected(filteredJobs) } :
    \A words \in { [r \in 1..Len(filteredJobs) |-> cleanTitle(filteredJobs[r].jobTitle)] } :
        LET kw == [i \in 1..Len(sel) |-> <<TitleCase(sel[i][1]), sel[i][2]>>]
        IN  /\ kw = keywords(filteredJobs)
            /\ \A i \in 1..Len(kw) :
                  kw[i][2] = Cardinality({ r \in 1..Len(filteredJobs) :
                                              HasWindow(words[r], SplitWords(sel[i][1])) })
            /\ TitlesOf(filteredJobs) = << "Senior Data Center Engineer",
                                           "Data Center Technician", "Network Engineer" >>
                  => kw = << <<"Data Center", 2>> >>

\* C11 witness: a phrase that one title has twice and another once is shown
\* with the count 2.
C11_Witness ==
    /\ TitlesOf(filteredJobs) = RepeatTitles
    /\ Len(titlePhrases_NoSeen(RepeatTitles[1])) > Len(titlePhrases(RepeatTitles[1]))
    /\ <<"Data Center", 2>> \in Range(keywords(filteredJobs))

C13_OrderedBySupport ==
    \A kw \in { keywords(filteredJobs) } :
        \A i \in 1..(Len(kw) - 1) : kw[i][2] >= kw[i + 1][2]

\* C13 witness: phrases of different support are shown, and the counting met
\* a rarer phrase of at least two titles before a more common one.
C13_Witness ==
    \E kw \in { keywords(filteredJobs) } :
    \E counts \in { SelectSeq(phraseCounts(filteredJobs), LAMBDA e : e[2] >= MinSupport) } :
        /\ Len(kw) >= 2
        /\ kw[1][2] > kw[Len(kw)][2]
        /\ \E i, k \in 1..Len(counts) : i < k /\ counts[i][2] < counts[k][2]

\* C14: every phrase shown has 2 to 4 words, separated by one space, none of
\* them a stop word or shorter than two letters.
C14_PhraseWordsMeaningful ==
    \A sel \in { selected(filteredJobs) } :
    \A kw \in { keywords(filteredJobs) } :
        \A i \in 1..Len(kw) :
            \A ws \in { SplitWords(kw[i][1]) } :
                /\ Len(ws) \in 2..4
                /\ Join(ws) = kw[i][1]
                /\ SplitWords(sel[i][1]) = [k \in 1..Len(ws) |-> ToLowerCase(ws[k])]
                /\ \A k \in 1..Len(ws) :
                      Len(ws[k]) > 1 /\ ToLowerCase(ws[k]) \notin stopWords

\* C14 witness: a phrase of four words is shown, from titles of which one
\* has a stop word and a word of one letter.
C14_Witness ==
    /\ TitlesOf(filteredJobs) = NestedTitles
    /\ <<"Data Center Network Engineer", 2>> \in Range(keywords(filteredJobs))
    /\ \E ws \in { SplitWords(StripTitle(NestedTitles[3])) } :
          \E a, b \in 1..Len(ws) : ToLowerCase(ws[a]) \in stopWords /\ Len(ws[b]) = 1

RECURSIVE SumSeq(_)
SumSeq(s) == IF s = <<>> THEN 0 ELSE Head(s) + SumSeq(Tail(s))

\* The bands that count the record j of `data`.
BandsOf(j, data) == { k \in 1..Len(ranges) : j \in Range(bucketMembers(data)[k]) }

\* C15: the counts of the freshness bands add up to the size of the subset
\* passed in, whatever the dates, future, empty and malformed ones included.
C15_BandCountsSumToSubset ==
    SumSeq(buckets(filteredJobs)) = Len(filteredJobs)

\* C15 witness: a subset of a record with a malformed date and a record with
\* a future date, counted in different bands.
C15_Witness ==
    /\ Len(filteredJobs) = 2
    /\ filteredJobs[1].datePosted = ""
    /\ filteredJobs[2].datePosted = DateOfAge(-1)
    /\ buckets(filteredJobs) = <<1, 0, 0, 0, 1>>

\* The reference date of the freshness bands, 2026-02-27, as a day number.
ReferenceDay == DaysFromCivil(2026, 2, 27)

\* The band the claim gives to an age of d whole days, d >= 0.
BandOfAge(d) ==
    IF d <= 5 THEN 1 ELSE IF d <= 10 THEN 2 ELSE IF d <= 30 THEN 3
    ELSE IF d <= 60 THEN 4 ELSE 5

\* C16: a record posted d >= 0 whole days before the reference date is
\* counted in exactly one band, that of its age: 0..5, 6..10, 11..30, 31..60,
\* 61 and more.
C16_AgeDecidesBand ==
    \A j \in Range(filteredJobs) :
        (IsCalendarDate(j.datePosted) /\ ReferenceDay - DayOf(j.datePosted) >= 0)
            => BandsOf(j, filteredJobs) = { BandOfAge(ReferenceDay - DayOf(j.datePosted)) }

\* The day counts that end a band and begin the next.
BandEdges == { ranges[k].maxDays[1] : k \in 1..(Len(ranges) - 1) }

\* C17: the lower edge of each band (cutoffStr) and the upper edge the next
\* older band uses (prevStr) are the same calendar day, so that no calendar
\* date younger than 61 days is left to the last band.
C17_BandEdgesSameDay ==
    /\ \A m \in BandEdges : cutoffStr(m) = prevStr(m)
    /\ \A j \in Range(filteredJobs) :
          ( /\ IsCalendarDate(j.datePosted)
            /\ ReferenceDay - DayOf(j.datePosted) \in 0..60 )
              => Len(ranges) \notin BandsOf(j, filteredJobs)

\* The records of the subset that have a wage above 0, by position.
Eligible == { i \in 1..Len(filteredJobs) :
                filteredJobs[i].wage # <<>> /\ filteredJobs[i].wage[1] > 0 }

RECURSIVE SumOver(_, _)
\* The sum of f over the set S.
SumOver(f, S) ==
    IF S = {} THEN 0
    ELSE LET x == CHOOSE y \in S : TRUE IN f[x] + SumOver(f, S \ {x})

EmployerPool == { "Oracle", "Intel", "Amazon" }

\* Longest store of the ranking specification drawn from the pool.
MaxRankJobs == 4

\* Nine employers, the fifth and the ninth with two postings each.
ManyEmployers ==
    << "Oracle", "Intel", "Amazon", "Microsoft", "Google", "Apple", "Meta",
       "TSMC", "Honeywell", "Honeywell", "Google" >>

RankStore(es) ==
    [i \in 1..Len(es) |->
        Job(i, "Data Analyst", es[i], "Phoenix", "2026-02-01", "Active", <<>>,
            IF i % 3 = 0 THEN "Net" ELSE "Dev")]

InitRank ==
    /\ \E es \in SeqsUpTo(EmployerPool, MaxRankJobs) \cup {ManyEmployers} :
          InitOver(RankStore(es))
    /\ tz = FixedZone(PhoenixOffset)

NextRank == ToggleEmployerClick

SpecRank == InitRank /\ [][NextRank]_vars

\* The position at which the value v of `field` first appears in `data`.
FirstSeen(data, field, v) ==
    CHOOSE i \in 1..Len(data) :
        data[i][field] = v /\ \A k \in 1..(i - 1) : data[k][field] # v

\* `ranking` lists values of `field` in `data`, none twice, each with the number
\* of records that have it, by count descending and, among equal counts, in
\* the order the values first appear in `data`.
IsRankedPrefix(ranking, data, field) ==
    /\ \A i \in 1..Len(ranking) :
          /\ ranking[i][1] \in { data[r][field] : r \in 1..Len(data) }
          /\ ranking[i][2] = Cardinality({ r \in 1..Len(data) : data[r][field] = ranking[i][1] })
    /\ \A i, k \in 1..Len(ranking) :
          i < k => \/ ranking[i][2] > ranking[k][2]
                   \/ /\ ranking[i][2] = ranking[k][2]
                      /\ FirstSeen(data, field, ranking[i][1])
                            < FirstSeen(data, field, ranking[k][1])

\* `ranking` is the whole ranking: it leaves no value of the field out.
ListsEveryValue(ranking, data, field) ==
    { ranking[i][1] : i \in 1..Len(ranking) } = { data[r][field] : r \in 1..Len(data) }

\* C19 as stated: the employer ranking and the category ranking list each
\* distinct value once with its count, by count descending, equal counts in
\* first-seen order.
C19_RankingListsEveryValue ==
    /\ IsRankedPrefix(topEmployers(filteredJobs), filteredJobs, "employer")
    /\ ListsEveryValue(topEmployers(filteredJobs), filteredJobs, "employer")
    /\ IsRankedPrefix(categoryCounts, jobs, "category")
    /\ ListsEveryValue(categoryCounts, jobs, "category")

\* C19 amended: the employer ranking is the first 8 entries of that ranking
\* (all of it when the subset has at most 8 employers), every value left out
\* ranking after the last one listed; the category ranking is complete.
C19_RankingTopEight ==
    \A top \in { topEmployers(filteredJobs) } :
        LET values == { filteredJobs[r].employer : r \in 1..Len(filteredJobs) }
            listed == { top[i][1] : i \in 1..Len(top) }
            count(v) == Cardinality({ r \in 1..Len(filteredJobs) : filteredJobs[r].employer = v })
        IN  /\ IsRankedPrefix(top, filteredJobs, "employer")
            /\ Len(top) = (IF Cardinality(values) < 8 THEN Cardinality(values) ELSE 8)
            /\ \A v \in values \ listed :
                  \A i \in 1..Len(top) :
                      \/ top[i][2] > count(v)
                      \/ /\ top[i][2] = count(v)
                         /\ FirstSeen(filteredJobs, "employer", top[i][1])
                               < FirstSeen(filteredJobs, "employer", v)
            /\ IsRankedPrefix(categoryCounts, jobs, "category")
            /\ ListsEveryValue(categoryCounts, jobs, "category")

\* C19 witness: nine employers in the subset, eight listed, the two with two
\* postings first and in first-seen order, the last employer seen left out.
C19_Witness ==
    /\ filteredJobs = RankStore(ManyEmployers)
    /\ Len(topEmployers(filteredJobs)) = 8
    /\ topEmployers(filteredJobs)[1] = <<"Google", 2>>
    /\ topEmployers(filteredJobs)[2] = <<"Honeywell", 2>>
    /\ topEmployers(filteredJobs)[8] = <<"Meta", 1>>

\* C20: an empty subset is no error: total 0, no employer, average wage 0, no
\* listed wage, every freshness band 0, an empty employer ranking and an
\* empty phrase list.
C20_EmptySubsetAllZero ==
    filteredJobs = <<>> =>
        /\ stats = [total |-> 0, employers |-> 0, avgWage |-> 0, withWage |-> 0]
        /\ buckets(filteredJobs) = [k \in 1..Len(ranges) |-> 0]
        /\ topEmployers(filteredJobs) = <<>>
        /\ keywords(filteredJobs) = <<>>

\* C20 witness: an employer set and a location set, neither empty, that no
\* record of the store satisfies together.
C20_Witness ==
    /\ Len(jobs) >= 4
    /\ selectedEmployers = {"Oracle"}
    /\ selectedLocations = {"Chandler"}
    /\ selectedStatuses = allStatuses
    /\ filteredJobs = <<>>
    /\ stats.total = 0

(***************************************************************************)
(* The search box: queries that differ in case and in surrounding blanks   *)
(***************************************************************************)

SearchInputs == { "", " ", "data", " data", "DATA", "oRaCLe", "chandler" }

InitSearch == Init

NextSearch ==
    \/ \E q \in SearchInputs : setSearchText(q)
    \/ CategoryClick
    \/ \E tag \in AppWageInputs : setWageFilter(tag)

SpecSearch == InitSearch /\ [][NextSearch]_vars

\* q occurs in the field when the case of letters is ignored on both sides.
ContainsIgnoringCase(field, q) ==
    \E i \in 0..(Len(field) - Len(q)) :
        \A k \in 1..Len(q) : UpperOf[CharAt(field, i + k)] = UpperOf[CharAt(q, k)]

\* The record j matches the query q in its title, employer or location.
Matches(j, q) ==
    \/ ContainsIgnoringCase(j.jobTitle, q)
    \/ ContainsIgnoringCase(j.employer, q)
    \/ ContainsIgnoringCase(j.location, q)

\* C21: where the free-text predicate is applied, it keeps a record iff the
\* query occurs in the title, the employer or the location, the case of the
\* letters of the query and of the field ignored.
C21_SearchAnyFieldAnyCase ==
    SearchApplied =>
        /\ Stage(8, jobs) = SelectSeq(jobs, LAMBDA j : Matches(j, searchText))
        /\ filteredJobs = SelectSeq(Pipeline(Without(8), jobs),
                                    LAMBDA j : Matches(j, searchText))

\* C21 witness: an upper-case query that matches lower-case and mixed-case
\* titles, and one that matches by employer only.
C21_Witness ==
    /\ Len(jobs) >= 4
    /\ activeCategory = <<>> /\ wageFilter = "all"
    /\ \/ searchText = "DATA" /\ Ids(filteredJobs) = {1, 3}
       \/ searchText = "oRaCLe" /\ Ids(filteredJobs) = {1}

\* C29: the free-text predicate is skipped exactly for an empty or blank
\* query, and a query selects what the query without its leading and
\* trailing blanks selects.
C29_SurroundingBlanksIgnored ==
    /\ SearchApplied <=> Trim(searchText) # ""
    /\ SearchApplied =>
          Stage(8, jobs) = SelectSeq(jobs, LAMBDA j : Matches(j, Trim(searchText)))

(***************************************************************************)
(* Properties of the handlers (checked over the application, Spec)         *)
(***************************************************************************)

\* `next` is `prev` toggled on val: val changes sides, nothing else does, and
\* a second toggle gives `prev` back.
IsToggle(prev, next, val) ==
    /\ val \in next <=> val \notin prev
    /\ \A v \in (prev \cup next) \ {val} : v \in next <=> v \in prev
    /\ Toggled(next, val) = prev

\* C22: a toggle gives a set that has the value iff the previous set had it
\* not and agrees with the previous set on every other value; a second
\* toggle of the value gives the previous set back.
C22_ToggleIsStructural ==
    [][ /\ \A val \in employerOptions :
              toggleEmployer(val) => IsToggle(selectedEmployers, selectedEmployers', val)
        /\ \A val \in locationOptions :
              toggleLocation(val) => IsToggle(selectedLocations, selectedLocations', val)
        /\ \A val \in statusOptions :
              toggleStatus(val) => IsToggle(selectedStatuses, selectedStatuses', val) ]_vars

\* C22 witness: one employer of three toggled off, the other two still in.
C22_Witness ==
    /\ Len(jobs) >= 3
    /\ selectedEmployers = allEmployers \ {"Intel"}
    /\ Cardinality(selectedEmployers) = 2

\* C23: no step changes the record store or a field of a record.
C23_StoreNeverChanges == [][jobs' = jobs]_vars

\* C23 witness: the store intact under a filter state that keeps none of it.
C23_Witness ==
    /\ jobs = SubSeq(Catalog, 1, 4)
    /\ selectedEmployers = {}
    /\ wageFilter # "all"
    /\ activeCategory # <<>>
    /\ filteredJobs = <<>>

\* C24: Reset All leaves no category, the three full sets, the wage tag
\* "all", no date bound and no search text; hasActiveFilters is then false
\* and the filtered subset is the store.
C24_ResetAllRestoresDefault ==
    [][ handleResetAll =>
          /\ activeCategory' = <<>>
          /\ selectedEmployers' = allEmployers'
          /\ selectedLocations' = allLocations'
          /\ selectedStatuses' = allStatuses'
          /\ wageFilter' = "all" /\ dateFrom' = "" /\ dateTo' = "" /\ searchText' = ""
          /\ ~hasActiveFilters'
          /\ filteredJobs' = jobs' ]_vars

\* C24 witness: a state in which Reset All is offered with every dimension
\* of the filter restricted.
C24_Witness ==
    /\ hasActiveFilters
    /\ activeCategory # <<>>
    /\ selectedEmployers # allEmployers
    /\ selectedLocations # allLocations
    /\ selectedStatuses # allStatuses
    /\ wageFilter # "all" /\ dateFrom # "" /\ dateTo # "" /\ Trim(searchText) # ""

\* The count a multi-select filter shows is the number of its listed options
\* that are unchecked, and it is shown as active iff there is one.
CountsUnchecked(options, chosen) ==
    /\ activeCount(options, chosen) >= 0
    /\ activeCount(options, chosen) = Cardinality(options \ chosen)
    /\ activeCount(options, chosen) > 0 <=> options \ chosen # {}

\* C25: in each of the three multi-select filters the exclusion count is not
\* negative, is the number of listed options that are unchecked, and the
\* filter is shown as active iff a listed option is unchecked.
C25_ExclusionCountIsUnchecked ==
    /\ CountsUnchecked(employerOptions, selectedEmployers)
    /\ CountsUnchecked(locationOptions, selectedLocations)
    /\ CountsUnchecked(statusOptions, selectedStatuses)

\* Every employer, location and status of the store is non-empty and has no
\* blank at either end.
CleanStore ==
    \A j \in Range(jobs) :
        \A field \in {"employer", "location", "status"} :
            j[field] # "" /\ Trim(j[field]) = j[field]

\* The size test on `chosen` tells whether it is the full list `all`.
SizeTestExact(chosen, all) ==
    /\ chosen \subseteq all
    /\ Cardinality(chosen) < Cardinality(all) <=> chosen # all

\* C26: over a store of clean values each selected set is a subset of the
\* global list, and the size test is true exactly when the set is not the
\* full list.
C26_SizeTestExactOnCleanStores ==
    CleanStore =>
        /\ SizeTestExact(selectedEmployers, allEmployers)
        /\ SizeTestExact(selectedLocations, allLocations)
        /\ SizeTestExact(selectedStatuses, allStatuses)
        /\ EmployerApplied <=> selectedEmployers # allEmployers
        /\ LocationApplied <=> selectedLocations # allLocations
        /\ StatusApplied <=> selectedStatuses # allStatuses

\* C26 witness: under a category, one set partly deselected and one cleared.
C26_Witness ==
    /\ CleanStore
    /\ Len(jobs) >= 4
    /\ activeCategory # <<>>
    /\ selectedEmployers \notin {allEmployers, {}}
    /\ selectedLocations = {}

\* Stores whose last record carries an employer with a leading blank.
UntrimmedStores == { SubSeq(Catalog, 6 - n, 5) : n \in 1..MaxJobs }

InitUntrimmed ==
    /\ \E store \in UntrimmedStores : InitOver(store)
    /\ tz = FixedZone(PhoenixOffset)

NextUntrimmed ==
    \/ ToggleEmployerClick
    \/ CategoryClick
    \/ \E tag \in AppWageInputs : setWageFilter(tag)

SpecUntrimmed == InitUntrimmed /\ [][NextUntrimmed]_vars

\* C27: with category names that are not empty, hasActiveFilters is true
\* exactly when a predicate of the pipeline is applied, and it is false
\* exactly in the no-restriction state.
C27_ActiveIffSomePredicateApplied ==
    (activeCategory = <<>> \/ activeCategory[1] # "") =>
        /\ hasActiveFilters <=> \E k \in 1..Len(CodeOrder) : StageApplied(k)
        /\ ~hasActiveFilters <=> NoRestriction

\* C28: a category click leaves the three inclusion sets, the wage tag, both
\* date bounds and the search text as they were.
C28_CategoryClickKeepsFilters ==
    [][ CategoryClick =>
          UNCHANGED <<selectedEmployers, selectedLocations, selectedStatuses,
                      wageFilter, dateFrom, dateTo, searchText>> ]_vars

\* C28 witness: under the category Net, Oracle, which Net does not list, is
\* still deselected.
C28_Witness ==
    /\ activeCategory = <<"Net">>
    /\ "Oracle" \in allEmployers \ employerOptions
    /\ "Oracle" \notin selectedEmployers
    /\ "Intel" \in selectedEmployers

\* C30: a record posted after the reference date is counted in the first
\* band and in no other.
C30_FutureDateInFirstBandOnly ==
    \A j \in Range(filteredJobs) :
        (IsCalendarDate(j.datePosted) /\ DayOf(j.datePosted) > ReferenceDay)
            => BandsOf(j, filteredJobs) = {1}

\* C30 witness: under a lower date bound, a record dated the day after the
\* reference date is the one record of the first band, beside an older one.
C30_Witness ==
    /\ dateFrom = "2026-02-01"
    /\ Len(filteredJobs) = 2
    /\ filteredJobs[1].datePosted = DateOfAge(6)
    /\ filteredJobs[2].datePosted = DateOfAge(-1)
    /\ DayOf(filteredJobs[2].datePosted) = ReferenceDay + 1
    /\ tz = FixedZone(PhoenixOffset)
    /\ buckets(filteredJobs) = <<1, 1, 0, 0, 0>>

====
